---- MODULE Spec2Model ----
(***************************************************************************)
(* The grade aggregation state machine of course/models.py                 *)
(* (GradeStateMachine, GradeChange.percentage), as a state machine: one    *)
(* reduction consumes grade changes one at a time and is then finalized.   *)
(*                                                                         *)
(* Python values are modelled as follows.  None is the string "None" in    *)
(* string-valued fields, NoneTime in time fields, NonePoints in points and *)
(* <<>> where a percentage is expected.  A Decimal is an exact rational    *)
(* <<n, d>> in lowest terms.  A raised exception ends the reduction: pc    *)
(* tells where it was raised and error names it; the machine keeps what    *)
(* the statements before the raise assigned.  A dict iterates in insertion *)
(* order (Python 3.7 and later).                                           *)
(***************************************************************************)
EXTENDS Integers, Sequences, FiniteSets, TLC

\* ---------------------------------------------------------------- bounds
\* The number of grade changes fed to one reduction.
MaxEvents == 3

None == "None"
NoneTime == 0
NonePoints == 0 - 1

GradeTimes == {1, 2}
AttemptIds == {"A", "B"}
PointsSet == {2, 4}
MaxPointsSet == {4}

\* ------------------------------------------------------------- constants
\* class grade_aggregation_strategy
max_grade == "max_grade"
avg_grade == "avg_grade"
min_grade == "min_grade"
use_earliest == "use_earliest"
use_latest == "use_latest"

GRADE_AGGREGATION_STRATEGY_CHOICES ==
    {max_grade, avg_grade, min_grade, use_earliest, use_latest}

\* class grade_state_change_types
grading_started == "grading_started"
graded == "graded"
retrieved == "retrieved"
unavailable == "unavailable"
extension == "extension"
report_sent == "report_sent"
do_over == "do_over"
exempt == "exempt"

GRADE_STATE_CHANGE_CHOICES ==
    {grading_started, graded, retrieved, unavailable, extension,
     report_sent, do_over, exempt}

\* aggregation_strategy and state are CharFields: the choices are not
\* enforced by the column, so one value outside each taxonomy is fed too.
OtherStrategy == "median_grade"
OtherState == "waived"

\* The attribute attempt_id_to_gchange after "del".
Deleted == <<[attempt_id |-> "del", gchange |-> 0]>>

VARIABLES
    self,               \* the GradeStateMachine object: a record of its attributes
    gchanges,           \* the grade changes taken from the iterable so far, each
                        \* with the is_superseded attribute consume gives it
    set_is_superseded,  \* the argument of consume
    gopp,               \* the GradingOpportunity whose grade changes are fed
    pc,                 \* "loop" (in consume's for loop), "done" (consume
                        \* returned), "raised_in_loop" or "raised_after_loop"
                        \* (an exception left consume); "done_again" or
                        \* "raised_again" after a second call of consume
    error,              \* the exception that left consume, NoError if none
    reducers            \* GradeStateMachine objects reducing side by side, each
                        \* with the grade changes, argument, position and
                        \* exception of its own consume call (used by
                        \* SpecParallel; empty otherwise)

vars == <<self, gchanges, set_is_superseded, gopp, pc, error, reducers>>

\* ------------------------------------------------------ Decimal arithmetic
RECURSIVE GCD(_, _)
GCD(a, b) == IF b = 0 THEN a ELSE GCD(b, a % b)

\* The non-negative rational n/d (d > 0) in lowest terms.
Rat(n, d) == LET g == GCD(n, d) IN <<n \div g, d \div g>>

RatAdd(x, y) == Rat(x[1] * y[2] + y[1] * x[2], x[2] * y[2])
RatDiv(x, k) == Rat(x[1], x[2] * k)
RatLess(x, y) == x[1] * y[2] < y[1] * x[2]

RECURSIVE RatSum(_)
RatSum(xs) == IF xs = <<>> THEN <<0, 1>> ELSE RatAdd(xs[1], RatSum(Tail(xs)))

\* max(xs) and min(xs) of Python: the first of the greatest (least) elements.
RECURSIVE RatMax(_)
RatMax(xs) ==
    IF Len(xs) = 1 THEN xs[1]
    ELSE LET m == RatMax(Tail(xs)) IN IF RatLess(xs[1], m) THEN m ELSE xs[1]

RECURSIVE RatMin(_)
RatMin(xs) ==
    IF Len(xs) = 1 THEN xs[1]
    ELSE LET m == RatMin(Tail(xs)) IN IF RatLess(m, xs[1]) THEN m ELSE xs[1]

\* ------------------------------------------------------------ data model
\* self.opportunity = None
NoneOpportunity == [pk |-> 0, aggregation_strategy |-> None, due_time |-> NoneTime]

\* A GradingOpportunity of another course or flow: its pk differs from gopp's.
OtherOpportunity == [pk |-> 2, aggregation_strategy |-> max_grade, due_time |-> NoneTime]

\* The GradingOpportunity rows a reduction may be run for (pk, aggregation_strategy,
\* due_time of class GradingOpportunity).  No step of consume reads
\* aggregation_strategy, so the rows differ in due_time only; what is said of
\* percentage() and stringify_state() ranges over the strategies (with_strategy).
GradingOpportunity ==
    [pk : {1},
     aggregation_strategy : {avg_grade},
     due_time : {NoneTime, 1}]

\* The GradeChange rows (class GradeChange) of opportunity o with grade_time t.
\* max_points is a NOT NULL column, points and attempt_id are nullable; the
\* fields a state does not use keep their defaults.
GradeChange(o, t) ==
    [opportunity : {o}, state : {graded},
     attempt_id : AttemptIds \cup {None},
     points : PointsSet \cup {NonePoints}, max_points : MaxPointsSet,
     due_time : {NoneTime}, grade_time : {t}]
    \cup
    [opportunity : {o},
     state : (GRADE_STATE_CHANGE_CHOICES \cup {OtherState}) \ {graded, extension},
     attempt_id : {None}, points : {NonePoints}, max_points : MaxPointsSet,
     due_time : {NoneTime}, grade_time : {t}]
    \cup
    [opportunity : {o}, state : {extension},
     attempt_id : {None}, points : {NonePoints}, max_points : MaxPointsSet,
     due_time : GradeTimes \cup {NoneTime}, grade_time : {t}]

\* GradeChange.percentage raises TypeError (100*None) when points is None.
GradeChange_percentage_raises(gchange) ==
    gchange.max_points # NonePoints /\ gchange.points = NonePoints

\* GradeChange.percentage, where it returns.
GradeChange_percentage(gchange) ==
    IF gchange.max_points # NonePoints
    THEN Rat(100 * gchange.points, gchange.max_points)
    ELSE <<>>

\* ------------------------------------------------------ GradeStateMachine
NoError == "NoError"
AssertionError == "AssertionError"
GradeRejectedUnavailable ==
    "ValueError: cannot accept grade once opportunity has been marked 'unavailable'"
GradeRejectedExempt ==
    "ValueError: cannot accept grade once opportunity has been marked 'exempt'"
GradeAfterDueDate == "ValueError: cannot accept grade after due date"
UnknownState == "RuntimeError: invalid grade change state"
TypeError == "TypeError"
AttributeError == "AttributeError"
InvalidStrategy == "ValueError: invalid grade aggregation strategy"

\* What a step of the reduction leaves: the machine, the grade changes (whose
\* is_superseded it may set) and the exception raised, if any.
Result(m, gcs, err) == [self |-> m, gchanges |-> gcs, error |-> err]

\* Mutant of clear_grades: the attempt map is not emptied.
clear_grades_keeps_attempts(m) ==
    [m EXCEPT !.state = None,
              !.last_grade_time = NoneTime,
              !.valid_percentages = <<>>]

\* Mutant of clear_grades: last_graded_time is cleared with the grades.
clear_grades_clears_last_graded_time(m) ==
    [m EXCEPT !.state = None,
              !.last_grade_time = NoneTime,
              !.last_graded_time = NoneTime,
              !.valid_percentages = <<>>,
              !.attempt_id_to_gchange = <<>>]

\* Mutant of clear_grades: valid_percentages is not emptied.
clear_grades_keeps_percentages(m) ==
    [m EXCEPT !.state = None,
              !.last_grade_time = NoneTime,
              !.attempt_id_to_gchange = <<>>]

\* GradeStateMachine._clear_grades
clear_grades(m) ==
    [m EXCEPT !.state = None,
              !.last_grade_time = NoneTime,
              !.valid_percentages = <<>>,
              !.attempt_id_to_gchange = <<>>]

\* GradeStateMachine.__init__
GradeStateMachine ==
    [clear_grades([opportunity |-> NoneOpportunity,
                   state |-> None,
                   last_grade_time |-> NoneTime,
                   valid_percentages |-> <<>>,
                   attempt_id_to_gchange |-> <<>>,
                   due_time |-> NoneTime,
                   last_graded_time |-> NoneTime,
                   last_report_time |-> NoneTime,
                   _last_grade_change_time |-> NoneTime])
     EXCEPT !.due_time = NoneTime,
            !.last_graded_time = NoneTime,
            !.last_report_time = NoneTime,
            !._last_grade_change_time = NoneTime]

\* The dict attempt_id_to_gchange is a sequence of [attempt_id, gchange] items in
\* insertion order (a Python dict iterates in insertion order); gchange is the
\* position in gchanges of the GradeChange object the item refers to.
has_attempt(d, a) == \E i \in 1..Len(d) : d[i].attempt_id = a

get_attempt(d, a) == (CHOOSE i \in 1..Len(d) : d[i].attempt_id = a)

\* Mutant of set_attempt: a key assigned again moves to the end.
set_attempt_moves_to_end(d, a, k) ==
    Append(SelectSeq(d, LAMBDA x : x.attempt_id # a),
           [attempt_id |-> a, gchange |-> k])

\* d[a] = k: a key already present keeps its place.
set_attempt(d, a, k) ==
    IF has_attempt(d, a)
    THEN [d EXCEPT ![get_attempt(d, a)] = [attempt_id |-> a, gchange |-> k]]
    ELSE Append(d, [attempt_id |-> a, gchange |-> k])

\* Mutant of opportunity_mismatch: only graded changes are compared.
opportunity_mismatch_graded_only(m, gchange) ==
    /\ m.opportunity # NoneOpportunity
    /\ gchange.state = graded
    /\ m.opportunity.pk # gchange.opportunity.pk

\* _consume_grade_change, lines 745-749: the first grade change gives the machine
\* its opportunity and due time; a later one of another opportunity fails the assert.
opportunity_mismatch(m, gchange) ==
    m.opportunity # NoneOpportunity /\ m.opportunity.pk # gchange.opportunity.pk

set_opportunity(m, gchange) ==
    IF m.opportunity = NoneOpportunity
    THEN [m EXCEPT !.opportunity = gchange.opportunity,
                   !.due_time = gchange.opportunity.due_time]
    ELSE m

\* _consume_grade_change, lines 751-754 ("check that times are increasing"): the
\* assert and the assignment are both inside the "is not None" test.
times_not_increasing(m, gchange) ==
    m._last_grade_change_time # NoneTime
        /\ ~(gchange.grade_time > m._last_grade_change_time)

set_last_grade_change_time(m, gchange) ==
    IF m._last_grade_change_time # NoneTime
    THEN [m EXCEPT !._last_grade_change_time = gchange.grade_time]
    ELSE m

\* Mutant of grade_rejected: the exempt test is missing.
grade_rejected_unavailable_only(m) ==
    IF m.state = unavailable THEN GradeRejectedUnavailable ELSE NoError

\* _consume_grade_change, lines 757-762: the exception a graded change meets in
\* state unavailable or exempt, NoError otherwise.
grade_rejected(m) ==
    IF m.state = unavailable THEN GradeRejectedUnavailable
    ELSE IF m.state = exempt THEN GradeRejectedExempt
    ELSE NoError

\* _consume_grade_change, line 764
after_due_date(m, gchange) ==
    m.due_time # NoneTime /\ gchange.grade_time > m.due_time

\* Mutant of record_attempt: with set_is_superseded the grade change already in
\* the map is flagged and stays the attempt's entry.
record_attempt_superseded_keeps_entry(m, gcs, k, ss) ==
    LET a == gcs[k].attempt_id
        d == m.attempt_id_to_gchange
    IN  IF ss /\ has_attempt(d, a)
        THEN Result(m, [gcs EXCEPT ![d[get_attempt(d, a)].gchange].is_superseded = TRUE],
                    NoError)
        ELSE Result([m EXCEPT !.attempt_id_to_gchange = set_attempt(d, a, k)],
                    gcs, NoError)

\* Mutant of record_attempt: the flag is set on the new grade change, not on the
\* one it supersedes.
record_attempt_flags_new(m, gcs, k, ss) ==
    LET a == gcs[k].attempt_id
        d == m.attempt_id_to_gchange
    IN  Result([m EXCEPT !.attempt_id_to_gchange = set_attempt(d, a, k)],
               IF ss /\ has_attempt(d, a)
               THEN [gcs EXCEPT ![k].is_superseded = TRUE]
               ELSE gcs,
               NoError)

\* Mutant of record_attempt: the flag is set whatever set_is_superseded is.
record_attempt_ignores_set_is_superseded(m, gcs, k, ss) ==
    LET a == gcs[k].attempt_id
        d == m.attempt_id_to_gchange
    IN  Result([m EXCEPT !.attempt_id_to_gchange = set_attempt(d, a, k)],
               IF has_attempt(d, a)
               THEN [gcs EXCEPT ![d[get_attempt(d, a)].gchange].is_superseded = TRUE]
               ELSE gcs,
               NoError)

\* _consume_grade_change, lines 768-774: a graded change with an attempt_id; k is
\* its position in gcs.
record_attempt(m, gcs, k, ss) ==
    LET a == gcs[k].attempt_id
        d == m.attempt_id_to_gchange
    IN  Result([m EXCEPT !.attempt_id_to_gchange = set_attempt(d, a, k)],
               IF ss /\ has_attempt(d, a)
               THEN [gcs EXCEPT ![d[get_attempt(d, a)].gchange].is_superseded = TRUE]
               ELSE gcs,
               NoError)

\* Mutant of consume_graded: the state is set to graded before the due date is
\* looked at.
consume_graded_state_before_due_date(m, gcs, k, ss) ==
    LET gchange == gcs[k]
        m1 == [m EXCEPT !.state = gchange.state]
    IN  IF grade_rejected(m) # NoError THEN Result(m, gcs, grade_rejected(m))
        ELSE IF after_due_date(m, gchange) THEN Result(m1, gcs, GradeAfterDueDate)
        ELSE IF gchange.attempt_id # None
        THEN IF m.attempt_id_to_gchange = Deleted
             THEN Result(m1, gcs, AttributeError)
             ELSE LET r == record_attempt(m1, gcs, k, ss)
                  IN  Result([r.self EXCEPT !.last_graded_time = gchange.grade_time],
                             r.gchanges, NoError)
        ELSE IF GradeChange_percentage_raises(gchange) THEN Result(m1, gcs, TypeError)
        ELSE Result([m1 EXCEPT
                        !.valid_percentages = Append(@, GradeChange_percentage(gchange)),
                        !.last_graded_time = gchange.grade_time],
                    gcs, NoError)

\* _consume_grade_change, lines 756-778: the graded branch.  On a machine whose
\* attempt_id_to_gchange was deleted (consume has returned once), lines 770-773
\* raise AttributeError.
consume_graded(m, gcs, k, ss) ==
    LET gchange == gcs[k]
        m1 == [m EXCEPT !.state = gchange.state]
    IN  IF grade_rejected(m) # NoError THEN Result(m, gcs, grade_rejected(m))
        ELSE IF after_due_date(m, gchange) THEN Result(m, gcs, GradeAfterDueDate)
        ELSE IF gchange.attempt_id # None
        THEN IF m.attempt_id_to_gchange = Deleted
             THEN Result(m1, gcs, AttributeError)
             ELSE LET r == record_attempt(m1, gcs, k, ss)
                  IN  Result([r.self EXCEPT !.last_graded_time = gchange.grade_time],
                             r.gchanges, NoError)
        ELSE IF GradeChange_percentage_raises(gchange) THEN Result(m1, gcs, TypeError)
        ELSE Result([m1 EXCEPT
                        !.valid_percentages = Append(@, GradeChange_percentage(gchange)),
                        !.last_graded_time = gchange.grade_time],
                    gcs, NoError)

\* Mutant of consume_other: report_sent is taken for a grade and sets
\* last_graded_time too.
consume_other_report_sets_graded_time(m, gcs, k) ==
    LET gchange == gcs[k]
    IN  IF gchange.state = unavailable
        THEN Result([clear_grades(m) EXCEPT !.state = gchange.state], gcs, NoError)
        ELSE IF gchange.state = do_over
        THEN Result(clear_grades(m), gcs, NoError)
        ELSE IF gchange.state = exempt
        THEN Result([clear_grades(m) EXCEPT !.state = gchange.state], gcs, NoError)
        ELSE IF gchange.state = report_sent
        THEN Result([m EXCEPT !.last_report_time = gchange.grade_time,
                              !.last_graded_time = gchange.grade_time],
                    gcs, NoError)
        ELSE IF gchange.state = extension
        THEN Result([m EXCEPT !.due_time = gchange.due_time], gcs, NoError)
        ELSE IF gchange.state \in {grading_started, retrieved}
        THEN Result(m, gcs, NoError)
        ELSE Result(m, gcs, UnknownState)

\* Mutant of consume_other: do_over clears the grades and keeps the state.
consume_other_do_over_keeps_state(m, gcs, k) ==
    LET gchange == gcs[k]
    IN  IF gchange.state = unavailable
        THEN Result([clear_grades(m) EXCEPT !.state = gchange.state], gcs, NoError)
        ELSE IF gchange.state = do_over
        THEN Result([clear_grades(m) EXCEPT !.state = m.state], gcs, NoError)
        ELSE IF gchange.state = exempt
        THEN Result([clear_grades(m) EXCEPT !.state = gchange.state], gcs, NoError)
        ELSE IF gchange.state = report_sent
        THEN Result([m EXCEPT !.last_report_time = gchange.grade_time], gcs, NoError)
        ELSE IF gchange.state = extension
        THEN Result([m EXCEPT !.due_time = gchange.due_time], gcs, NoError)
        ELSE IF gchange.state \in {grading_started, retrieved}
        THEN Result(m, gcs, NoError)
        ELSE Result(m, gcs, UnknownState)

\* Mutant of consume_other: an extension never moves the due time back.
consume_other_extension_maximizes(m, gcs, k) ==
    LET gchange == gcs[k]
    IN  IF gchange.state = unavailable
        THEN Result([clear_grades(m) EXCEPT !.state = gchange.state], gcs, NoError)
        ELSE IF gchange.state = do_over
        THEN Result(clear_grades(m), gcs, NoError)
        ELSE IF gchange.state = exempt
        THEN Result([clear_grades(m) EXCEPT !.state = gchange.state], gcs, NoError)
        ELSE IF gchange.state = report_sent
        THEN Result([m EXCEPT !.last_report_time = gchange.grade_time], gcs, NoError)
        ELSE IF gchange.state = extension
        THEN Result([m EXCEPT !.due_time = IF gchange.due_time > @
                                           THEN gchange.due_time ELSE @],
                    gcs, NoError)
        ELSE IF gchange.state \in {grading_started, retrieved}
        THEN Result(m, gcs, NoError)
        ELSE Result(m, gcs, UnknownState)

\* _consume_grade_change, lines 780-803: the other branches.
consume_other(m, gcs, k) ==
    LET gchange == gcs[k]
    IN  IF gchange.state = unavailable
        THEN Result([clear_grades(m) EXCEPT !.state = gchange.state], gcs, NoError)
        ELSE IF gchange.state = do_over
        THEN Result(clear_grades(m), gcs, NoError)
        ELSE IF gchange.state = exempt
        THEN Result([clear_grades(m) EXCEPT !.state = gchange.state], gcs, NoError)
        ELSE IF gchange.state = report_sent
        THEN Result([m EXCEPT !.last_report_time = gchange.grade_time], gcs, NoError)
        ELSE IF gchange.state = extension
        THEN Result([m EXCEPT !.due_time = gchange.due_time], gcs, NoError)
        ELSE IF gchange.state \in {grading_started, retrieved}
        THEN Result(m, gcs, NoError)
        ELSE Result(m, gcs, UnknownState)

\* GradeStateMachine._consume_grade_change(gcs[k], ss) on machine m
consume_grade_change(m, gcs, k, ss) ==
    LET gchange == gcs[k]
        m1 == set_opportunity(m, gchange)
        m2 == set_last_grade_change_time(m1, gchange)
    IN  IF opportunity_mismatch(m, gchange) THEN Result(m, gcs, AssertionError)
        ELSE IF times_not_increasing(m1, gchange) THEN Result(m1, gcs, AssertionError)
        ELSE IF gchange.state = graded THEN consume_graded(m2, gcs, k, ss)
        ELSE consume_other(m2, gcs, k)

\* consume, lines 806-808: one pass of the for loop over gchange.
consume_loop(m, gcs, gchange, ss) ==
    LET gcs1 == Append(gcs, gchange @@ [is_superseded |-> FALSE])
    IN  consume_grade_change(m, gcs1, Len(gcs1), ss)

\* consume, lines 810-812: list.extend over a generator appends the percentages one
\* by one, up to the first grade change whose percentage() raises.
RECURSIVE extend_valid_percentages(_, _, _)
extend_valid_percentages(m, gcs, d) ==
    IF d = <<>> THEN Result(m, gcs, NoError)
    ELSE IF GradeChange_percentage_raises(gcs[d[1].gchange])
    THEN Result(m, gcs, TypeError)
    ELSE extend_valid_percentages(
            [m EXCEPT !.valid_percentages =
                          Append(@, GradeChange_percentage(gcs[d[1].gchange]))],
            gcs, Tail(d))

\* consume, lines 810-816: after the loop.  Line 812 raises AttributeError on a
\* machine whose attempt_id_to_gchange was deleted and not made anew by _clear_grades.
consume_return(m, gcs) ==
    LET r == extend_valid_percentages(m, gcs, m.attempt_id_to_gchange)
    IN  IF m.attempt_id_to_gchange = Deleted THEN Result(m, gcs, AttributeError)
        ELSE IF r.error # NoError THEN r
        ELSE Result([r.self EXCEPT !.attempt_id_to_gchange = Deleted], gcs, NoError)

\* GradeStateMachine.consume(iterable, ss) on machine m: the whole call.
RECURSIVE consume(_, _, _, _)
consume(m, gcs, iterable, ss) ==
    IF iterable = <<>> THEN consume_return(m, gcs)
    ELSE LET r == consume_loop(m, gcs, Head(iterable), ss)
         IN  IF r.error # NoError THEN r
             ELSE consume(r.self, r.gchanges, Tail(iterable), ss)

\* ------------------------------------------------------------------ queries
\* Mutant of percentage_raises: the strategy is looked at before the empty test.
percentage_raises_when_empty(m) ==
    m.opportunity.aggregation_strategy \notin GRADE_AGGREGATION_STRATEGY_CHOICES

\* GradeStateMachine.percentage raises ValueError for an unknown strategy.
percentage_raises(m) ==
    /\ ~(m.opportunity = NoneOpportunity \/ m.valid_percentages = <<>>)
    /\ m.opportunity.aggregation_strategy \notin GRADE_AGGREGATION_STRATEGY_CHOICES

\* Mutant of percentage: use_earliest and use_latest are exchanged.
percentage_earliest_latest_exchanged(m) ==
    LET strategy == m.opportunity.aggregation_strategy
        vp == m.valid_percentages
    IN  IF m.opportunity = NoneOpportunity \/ vp = <<>> THEN <<>>
        ELSE IF strategy = max_grade THEN RatMax(vp)
        ELSE IF strategy = min_grade THEN RatMin(vp)
        ELSE IF strategy = avg_grade THEN RatDiv(RatSum(vp), Len(vp))
        ELSE IF strategy = use_earliest THEN vp[Len(vp)]
        ELSE IF strategy = use_latest THEN vp[1]
        ELSE <<>>

\* GradeStateMachine.percentage, where it returns: <<>> is None.
percentage(m) ==
    LET strategy == m.opportunity.aggregation_strategy
        vp == m.valid_percentages
    IN  IF m.opportunity = NoneOpportunity \/ vp = <<>> THEN <<>>
        ELSE IF strategy = max_grade THEN RatMax(vp)
        ELSE IF strategy = min_grade THEN RatMin(vp)
        ELSE IF strategy = avg_grade THEN RatDiv(RatSum(vp), Len(vp))
        ELSE IF strategy = use_earliest THEN vp[1]
        ELSE IF strategy = use_latest THEN vp[Len(vp)]
        ELSE <<>>

\* "%.1f%%" % x for a rational x >= 0: one decimal, the nearest tenth, a tie going
\* to the even tenth (a tie x.x5 is a binary fraction, which a float holds exactly).
format_percentage(x) ==
    LET q == (10 * x[1]) \div x[2]
        r == (10 * x[1]) % x[2]
        tenths == IF 2 * r > x[2] \/ (2 * r = x[2] /\ q % 2 = 1) THEN q + 1 ELSE q
    IN  ToString(tenths \div 10) \o "." \o ToString(tenths % 10) \o "%"

\* Mutant of stringify_state: the count is shown for a single percentage too.
stringify_state_always_count(m) ==
    IF m.state = None THEN "-"
    ELSE IF m.state = exempt THEN "(exempt)"
    ELSE IF m.state = graded
    THEN IF percentage_raises(m) THEN InvalidStrategy
         ELSE IF percentage(m) = <<>> THEN TypeError
         ELSE format_percentage(percentage(m))
              \o " (/" \o ToString(Len(m.valid_percentages)) \o ")"
    ELSE "(other state)"

\* Mutant of stringify_state: unavailable is shown like the unset state.
stringify_state_unavailable_dash(m) ==
    IF m.state = None \/ m.state = unavailable THEN "-"
    ELSE IF m.state = exempt THEN "(exempt)"
    ELSE IF m.state = graded
    THEN IF percentage_raises(m) THEN InvalidStrategy
         ELSE IF percentage(m) = <<>> THEN TypeError
         ELSE format_percentage(percentage(m))
              \o (IF Len(m.valid_percentages) > 1
                  THEN " (/" \o ToString(Len(m.valid_percentages)) \o ")"
                  ELSE "")
    ELSE "(other state)"

\* GradeStateMachine.stringify_state; formatting None raises TypeError.
stringify_state(m) ==
    IF m.state = None THEN "-"
    ELSE IF m.state = exempt THEN "(exempt)"
    ELSE IF m.state = graded
    THEN IF percentage_raises(m) THEN InvalidStrategy
         ELSE IF percentage(m) = <<>> THEN TypeError
         ELSE format_percentage(percentage(m))
              \o (IF Len(m.valid_percentages) > 1
                  THEN " (/" \o ToString(Len(m.valid_percentages)) \o ")"
                  ELSE "")
    ELSE "(other state)"

\* ----------------------------------------------------------- the reduction
Init ==
    /\ self = GradeStateMachine
    /\ gchanges = <<>>
    /\ set_is_superseded \in BOOLEAN
    /\ gopp \in GradingOpportunity
    /\ pc = "loop"
    /\ error = NoError
    /\ reducers = <<>>

\* The attempt ids a next grade change may carry: attempt ids are opaque strings
\* compared only for equality, so the first one a reduction meets is called "A".
NextAttemptIds ==
    {None, "A"} \cup
    (IF \E i \in 1..Len(gchanges) : gchanges[i].attempt_id = "A"
     THEN AttemptIds ELSE {})

\* The grade changes the iterable may yield next: GradeChange.Meta orders the rows
\* of a participation by grade_time, so times do not decrease (equal times can
\* be stored).  The first row is gopp's; a later row may be another opportunity's,
\* of which only the state is varied (nothing else of it is read): it has the
\* grade_time of the row before it.
NextGradeChanges ==
    LET times == {u \in GradeTimes :
                    gchanges = <<>> \/ u >= gchanges[Len(gchanges)].grade_time}
    IN  UNION {{g \in GradeChange(gopp, t) : g.attempt_id \in NextAttemptIds}
                 : t \in times}
        \cup
        (IF gchanges = <<>> THEN {}
         ELSE {g \in GradeChange(OtherOpportunity, gchanges[Len(gchanges)].grade_time) :
                  /\ g.attempt_id = None
                  /\ g.points = NonePoints
                  /\ g.due_time = NoneTime})

\* consume: one pass of the for loop.
Consume(gchange) ==
    /\ pc = "loop"
    /\ Len(gchanges) < MaxEvents
    /\ LET r == consume_loop(self, gchanges, gchange, set_is_superseded)
       IN  /\ self' = r.self
           /\ gchanges' = r.gchanges
           /\ error' = r.error
           /\ pc' = IF r.error = NoError THEN "loop" ELSE "raised_in_loop"
    /\ UNCHANGED <<set_is_superseded, gopp, reducers>>

\* consume: the iterable is exhausted.
Return ==
    /\ pc = "loop"
    /\ LET r == consume_return(self, gchanges)
       IN  /\ self' = r.self
           /\ gchanges' = r.gchanges
           /\ error' = r.error
           /\ pc' = IF r.error = NoError THEN "done" ELSE "raised_after_loop"
    /\ UNCHANGED <<set_is_superseded, gopp, reducers>>

Next ==
    \/ \E gchange \in NextGradeChanges : Consume(gchange)
    \/ Return

Spec == Init /\ [][Next]_vars

\* A second call of consume on the machine the first call returned, with one more
\* grade change: m.consume([e1, ..]) and then m.consume([gchange]).
Continue(gchange) ==
    /\ pc = "done"
    /\ Len(gchanges) < MaxEvents
    /\ LET r == consume(self, gchanges, <<gchange>>, set_is_superseded)
       IN  /\ self' = r.self
           /\ gchanges' = r.gchanges
           /\ error' = r.error
           /\ pc' = IF r.error = NoError THEN "done_again" ELSE "raised_again"
    /\ UNCHANGED <<set_is_superseded, gopp, reducers>>

NextContinue ==
    \/ \E gchange \in NextGradeChanges : Consume(gchange)
    \/ Return
    \/ \E gchange \in NextGradeChanges : Continue(gchange)

\* The reduction, and its machine used for a second call.
SpecContinue == Init /\ [][NextContinue]_vars

\* ------------------------------------------------- reductions side by side
\* Two GradeStateMachine objects, each consuming the grade changes of its own
\* opportunity (its own slice of rows: no GradeChange object is fed to both), their
\* loop passes interleaved in any order.  Every attribute of a machine is an
\* instance attribute made by __init__ and _clear_grades; the class has no
\* attribute of its own and the module no global the methods write.
ReducerIds == {1, 2}

ParallelOpportunity(i) ==
    [pk |-> i, aggregation_strategy |-> avg_grade, due_time |-> NoneTime]

\* The rows machine i may be fed next: graded changes with and without an
\* attempt_id, and resets, at increasing times.
ParallelGradeChanges(i) ==
    LET t == Len(reducers[i].gchanges) + 1
    IN  {g \in GradeChange(ParallelOpportunity(i), t) :
            /\ g.state \in {graded, unavailable, do_over}
            /\ g.attempt_id \in {None, "A"}
            /\ g.points # NonePoints \/ g.state # graded}

InitParallel ==
    /\ self = GradeStateMachine
    /\ gchanges = <<>>
    /\ set_is_superseded = FALSE
    /\ gopp = ParallelOpportunity(1)
    /\ pc = "done"
    /\ error = NoError
    /\ reducers \in [ReducerIds -> [self : {GradeStateMachine},
                                    gchanges : {<<>>},
                                    set_is_superseded : BOOLEAN,
                                    pc : {"loop"},
                                    error : {NoError}]]

\* Mutant of consume_of: valid_percentages is one list shared by all machines (a
\* class attribute), so what machine i has is what every machine has.
consume_of_shared_percentages(rs, i, gchange) ==
    LET r == consume_loop(rs[i].self, rs[i].gchanges, gchange,
                          rs[i].set_is_superseded)
    IN  [j \in DOMAIN rs |->
            IF j = i
            THEN [rs[i] EXCEPT !.self = r.self,
                               !.gchanges = r.gchanges,
                               !.error = r.error,
                               !.pc = IF r.error = NoError
                                      THEN "loop" ELSE "raised_in_loop"]
            ELSE [rs[j] EXCEPT !.self.valid_percentages = r.self.valid_percentages]]

\* One pass of the for loop of machine i's consume: it reads and writes the
\* attributes of machine i and of the grade changes fed to machine i.
consume_of(rs, i, gchange) ==
    LET r == consume_loop(rs[i].self, rs[i].gchanges, gchange,
                          rs[i].set_is_superseded)
    IN  [rs EXCEPT ![i] = [@ EXCEPT !.self = r.self,
                                    !.gchanges = r.gchanges,
                                    !.error = r.error,
                                    !.pc = IF r.error = NoError
                                           THEN "loop" ELSE "raised_in_loop"]]

\* Machine i's consume after its loop.
return_of(rs, i) ==
    LET r == consume_return(rs[i].self, rs[i].gchanges)
    IN  [rs EXCEPT ![i] = [@ EXCEPT !.self = r.self,
                                    !.gchanges = r.gchanges,
                                    !.error = r.error,
                                    !.pc = IF r.error = NoError
                                           THEN "done" ELSE "raised_after_loop"]]

\* The grade changes fed to all machines so far.
ParallelEvents ==
    Len(reducers[1].gchanges) + Len(reducers[2].gchanges)

ParallelConsume(i, gchange) ==
    /\ reducers[i].pc = "loop"
    /\ ParallelEvents < MaxEvents
    /\ reducers' = consume_of(reducers, i, gchange)
    /\ UNCHANGED <<self, gchanges, set_is_superseded, gopp, pc, error>>

ParallelReturn(i) ==
    /\ reducers[i].pc = "loop"
    /\ reducers' = return_of(reducers, i)
    /\ UNCHANGED <<self, gchanges, set_is_superseded, gopp, pc, error>>

NextParallel ==
    \/ \E i \in ReducerIds : \E gchange \in ParallelGradeChanges(i) :
          ParallelConsume(i, gchange)
    \/ \E i \in ReducerIds : ParallelReturn(i)

SpecParallel == InitParallel /\ [][NextParallel]_vars

\* -------------------------------------------------- reading the event log
\* The k-th grade change was consumed without an exception.
Consumed(k) == k < Len(gchanges) \/ pc # "raised_in_loop"

ResetStates == {unavailable, exempt, do_over}

\* The position of the last consumed unavailable, exempt or do_over change, 0 if none.
LastReset ==
    LET rs == {k \in 1..Len(gchanges) :
                 Consumed(k) /\ gchanges[k].state \in ResetStates}
    IN  IF rs = {} THEN 0 ELSE CHOOSE k \in rs : \A j \in rs : j <= k

\* The consumed graded changes after position r, in event order.
GradedSince(r) ==
    {k \in (r + 1)..Len(gchanges) : Consumed(k) /\ gchanges[k].state = graded}

\* C1: a grade change whose grade_time is equal to or smaller than that of the
\* change consumed immediately before it is not consumed: the reduction fails at it.
C1_OutOfOrderRejected ==
    \A k \in 2..Len(gchanges) :
        gchanges[k].grade_time <= gchanges[k - 1].grade_time
            => /\ k = Len(gchanges)
               /\ pc = "raised_in_loop"

\* A step of the for loop, and the grade change it feeds.
ConsumeStep == pc = "loop" /\ Len(gchanges') = Len(gchanges) + 1

Fed == gchanges'[Len(gchanges')]

\* C2: a graded change consumed while state is unavailable or exempt fails, with
\* the ValueError of that state when it belongs to the machine's opportunity, and
\* leaves the machine as it was: the grade is not accepted.
C2_LockoutRejectsGraded ==
    [][(ConsumeStep /\ Fed.state = graded /\ self.state \in {unavailable, exempt})
          => /\ pc' = "raised_in_loop"
             /\ self' = self
             /\ Fed.opportunity.pk = self.opportunity.pk
                  => error' = (IF self.state = unavailable
                               THEN GradeRejectedUnavailable
                               ELSE GradeRejectedExempt)]_vars

C2_Witness ==
    /\ Len(gchanges) = 2
    /\ gchanges[1].state = unavailable
    /\ gchanges[2].state = graded
    /\ pc = "raised_in_loop"
    /\ error = GradeRejectedUnavailable

C2_Witness_Exempt ==
    /\ Len(gchanges) = 2
    /\ gchanges[1].state = exempt
    /\ gchanges[2].state = graded
    /\ pc = "raised_in_loop"
    /\ error = GradeRejectedExempt

\* The due time a grade change g is checked against: lines 745-747 have run when
\* line 764 reads self.due_time.
RunningDueTime(g) ==
    IF self.opportunity = NoneOpportunity THEN g.opportunity.due_time
    ELSE self.due_time

Late(g) == RunningDueTime(g) # NoneTime /\ g.grade_time > RunningDueTime(g)

\* A graded change of the machine's opportunity fed while the state is neither
\* unavailable nor exempt.
GradedStep ==
    /\ ConsumeStep
    /\ Fed.state = graded
    /\ self.state \notin {unavailable, exempt}
    /\ ~opportunity_mismatch(self, Fed)

\* C3: a graded change fed while the state is neither unavailable nor exempt fails
\* with "cannot accept grade after due date" exactly when the running due_time is
\* set and its grade_time is strictly greater; otherwise (grade_time <= due_time,
\* or due_time unset) it is accepted: consumed without an exception, the state
\* becoming graded.
C3_DueDateRejection ==
    [][GradedStep
          => /\ Late(Fed) => (error' = GradeAfterDueDate /\ pc' = "raised_in_loop")
             /\ ~Late(Fed) => /\ error' = NoError
                              /\ pc' = "loop"
                              /\ self'.state = graded]_vars

\* The test of line 764 alone: the due-date ValueError is raised exactly for a late
\* grade, and a grade that is not late and has points or an attempt_id is accepted.
C3_DueDateTest ==
    [][GradedStep
          => /\ (error' = GradeAfterDueDate) <=> Late(Fed)
             /\ Late(Fed) => (pc' = "raised_in_loop" /\ self'.state = self.state)
             /\ ~Late(Fed) => self'.state = graded
             /\ (~Late(Fed) /\ (Fed.points # NonePoints \/ Fed.attempt_id # None))
                  => /\ error' = NoError
                     /\ pc' = "loop"
                     /\ self'.last_graded_time = Fed.grade_time]_vars

\* ------------------------------------------- what the log says should result
\* The percentage of the k-th grade change.
Pct(k) == GradeChange_percentage(gchanges[k])

\* The p-th smallest element of a set of positions.
Nth(S, p) == CHOOSE k \in S : Cardinality({j \in S : j <= k}) = p

\* The consumed graded changes since the last reset: those without an attempt_id,
\* and the attempt ids of the others.
UngroupedSince == {k \in GradedSince(LastReset) : gchanges[k].attempt_id = None}

AttemptsSince ==
    {gchanges[k].attempt_id : k \in GradedSince(LastReset) \ UngroupedSince}

OfAttempt(a) == {k \in GradedSince(LastReset) : gchanges[k].attempt_id = a}

FirstOf(a) == CHOOSE k \in OfAttempt(a) : \A j \in OfAttempt(a) : k <= j

LatestOf(a) == CHOOSE k \in OfAttempt(a) : \A j \in OfAttempt(a) : j <= k

\* The place of attempt id a among the attempt ids, by first appearance.
Rank(a) == Cardinality({b \in AttemptsSince : FirstOf(b) <= FirstOf(a)})

\* The entries of valid_percentages that follow the ungrouped ones.
AttemptEntries ==
    SubSeq(self.valid_percentages, Cardinality(UngroupedSince) + 1,
           Len(self.valid_percentages))

\* i and j are consumed graded changes of one attempt_id, i before j, with no
\* consumed unavailable, exempt or do_over change between them.
SameAttemptRun(i, j) ==
    /\ i < j
    /\ Consumed(i) /\ Consumed(j)
    /\ gchanges[i].state = graded /\ gchanges[j].state = graded
    /\ gchanges[i].attempt_id # None
    /\ gchanges[i].attempt_id = gchanges[j].attempt_id
    /\ \A k \in (i + 1)..(j - 1) :
          ~(Consumed(k) /\ gchanges[k].state \in ResetStates)

\* j is the latest grade change of a run of two or more.
RunLatest(j) ==
    /\ \E i \in 1..Len(gchanges) : SameAttemptRun(i, j)
    /\ ~\E k \in 1..Len(gchanges) : SameAttemptRun(j, k)

\* With set_is_superseded, within a run every grade change but the latest is
\* flagged and the latest is not.
RunFlags ==
    \A i, j \in 1..Len(gchanges) :
        SameAttemptRun(i, j)
            => /\ gchanges[i].is_superseded
               /\ RunLatest(j) => ~gchanges[j].is_superseded

\* Exactly one entry of valid_percentages is the attempt's of grade change j, and
\* it is j's percentage.
OneEntryFor(j) ==
    LET a == gchanges[j].attempt_id
    IN  /\ a \in AttemptsSince
        /\ Len(AttemptEntries) = Cardinality(AttemptsSince)
        /\ AttemptEntries[Rank(a)] = Pct(j)

\* C4 as stated: with set_is_superseded, graded changes that share an attempt_id
\* with no reset between them are all flagged but the latest, and once consume has
\* returned exactly one entry of valid_percentages is that attempt's, the latest
\* one's percentage.
C4_Supersession ==
    set_is_superseded
        => /\ RunFlags
           /\ pc = "done"
                => \A j \in 1..Len(gchanges) : RunLatest(j) => OneEntryFor(j)

\* C4 amended: the same, the entry being there provided no unavailable, exempt or
\* do_over change was consumed after the run.
C4_SupersessionSinceReset ==
    set_is_superseded
        => /\ RunFlags
           /\ pc = "done"
                => \A j \in 1..Len(gchanges) :
                      (RunLatest(j) /\ j > LastReset) => OneEntryFor(j)

C4_Witness ==
    /\ set_is_superseded
    /\ pc = "done"
    /\ Len(gchanges) = 3
    /\ SameAttemptRun(1, 3)
    /\ gchanges[2].attempt_id = "B"
    /\ gchanges[1].is_superseded /\ ~gchanges[3].is_superseded
    /\ Pct(1) = <<50, 1>> /\ Pct(3) = <<100, 1>>
    /\ self.valid_percentages = <<<<100, 1>>, Pct(2)>>

\* What the log says valid_percentages is once consume has returned: the
\* percentages of the ungrouped graded changes since the last reset, in event order,
\* then the percentage of the latest graded change of each attempt id since the last
\* reset, the attempt ids in the order of their first appearance.
ExpectedValidPercentages ==
    LET u == Cardinality(UngroupedSince)
        n == u + Cardinality(AttemptsSince)
    IN  [p \in 1..n |->
            IF p <= u THEN Pct(Nth(UngroupedSince, p))
            ELSE Pct(LatestOf(CHOOSE a \in AttemptsSince : Rank(a) = p - u))]

\* C5: right after an unavailable, exempt or do_over change is consumed, whatever
\* came before it, valid_percentages and the attempt map are empty and state is
\* unavailable, exempt and None respectively; and when consume has returned, no
\* graded change up to the last reset is among the contributions to
\* valid_percentages.
C5_Reset ==
    /\ (pc = "loop" /\ gchanges # <<>>
          /\ gchanges[Len(gchanges)].state \in ResetStates)
          => /\ self.valid_percentages = <<>>
             /\ self.attempt_id_to_gchange = <<>>
             /\ self.state = (IF gchanges[Len(gchanges)].state = do_over
                              THEN None ELSE gchanges[Len(gchanges)].state)
    /\ pc = "done"
          => /\ Len(self.valid_percentages) <= Cardinality(GradedSince(LastReset))
             /\ \A p \in 1..Len(self.valid_percentages) :
                   \E k \in GradedSince(LastReset) : self.valid_percentages[p] = Pct(k)

C5_Witness ==
    /\ pc = "done"
    /\ Len(gchanges) = 3
    /\ gchanges[1].state = graded /\ gchanges[1].attempt_id = None
    /\ gchanges[2].state = do_over
    /\ gchanges[3].state = graded /\ gchanges[3].attempt_id = "A"
    /\ self.state = graded
    /\ self.valid_percentages = <<Pct(3)>>

C5_Witness_DoOver ==
    /\ pc = "loop"
    /\ Len(gchanges) = 2
    /\ gchanges[1].state = exempt
    /\ gchanges[2].state = do_over
    /\ self.state = None

\* C6: once consume has returned, valid_percentages is the percentages of the
\* ungrouped graded changes consumed since the last reset, in event order, followed
\* by one entry per attempt id of the graded changes consumed since the last reset,
\* the attempt ids in the order of their first appearance; its length is the number
\* of the former plus the number of the latter; the attempt map is deleted.
C6_Finalization ==
    pc = "done"
        => /\ self.valid_percentages = ExpectedValidPercentages
           /\ Len(self.valid_percentages)
                = Cardinality(UngroupedSince) + Cardinality(AttemptsSince)
           /\ self.attempt_id_to_gchange = Deleted

C6_Witness ==
    /\ pc = "done"
    /\ Len(gchanges) = 3
    /\ gchanges[1].state = graded /\ gchanges[1].attempt_id = "A"
    /\ gchanges[2].state = graded /\ gchanges[2].attempt_id = "B"
    /\ gchanges[3].state = graded /\ gchanges[3].attempt_id = "A"
    /\ Pct(2) # Pct(3)
    /\ self.valid_percentages = <<Pct(3), Pct(2)>>

C6_Witness_Mixed ==
    /\ pc = "done"
    /\ Len(gchanges) = 3
    /\ gchanges[1].state = graded /\ gchanges[1].attempt_id = "A"
    /\ gchanges[2].state = graded /\ gchanges[2].attempt_id = None
    /\ gchanges[3].state = graded /\ gchanges[3].attempt_id = None
    /\ Pct(1) # Pct(2) /\ Pct(2) # Pct(3)
    /\ self.valid_percentages = <<Pct(2), Pct(3), Pct(1)>>

\* ---------------------------------------------------------------- queries
\* percentage() reads the opportunity's aggregation_strategy, which no step of the
\* reduction reads: the machine as it is when its opportunity has strategy s.
AllStrategies == GRADE_AGGREGATION_STRATEGY_CHOICES \cup {OtherStrategy}

with_strategy(m, s) ==
    IF m.opportunity = NoneOpportunity THEN m
    ELSE [m EXCEPT !.opportunity.aggregation_strategy = s]

\* x <= y for rationals.
Leq(x, y) == x[1] * y[2] <= y[1] * x[2]

RECURSIVE DenProduct(_)
DenProduct(xs) == IF xs = <<>> THEN 1 ELSE xs[1][2] * DenProduct(Tail(xs))

\* The sum of xs, times d (a multiple of every denominator).
RECURSIVE ScaledSum(_, _)
ScaledSum(xs, d) ==
    IF xs = <<>> THEN 0 ELSE xs[1][1] * (d \div xs[1][2]) + ScaledSum(Tail(xs), d)

\* p is the arithmetic mean of xs.
IsMean(p, xs) ==
    LET d == DenProduct(xs)
    IN  p[1] * d * Len(xs) = ScaledSum(xs, d) * p[2]

\* C7: for non-empty valid_percentages, percentage() is their maximum under
\* max_grade, their minimum under min_grade, their arithmetic mean under avg_grade,
\* the first under use_earliest and the last under use_latest; under a strategy
\* outside these five it raises.
C7_Aggregation ==
    self.valid_percentages # <<>>
        => \A s \in AllStrategies :
              LET m == with_strategy(self, s)
                  vp == self.valid_percentages
                  p == percentage(m)
              IN  /\ self.opportunity # NoneOpportunity
                  /\ percentage_raises(m) <=> s \notin GRADE_AGGREGATION_STRATEGY_CHOICES
                  /\ s = max_grade
                       => /\ \E i \in 1..Len(vp) : p = vp[i]
                          /\ \A i \in 1..Len(vp) : Leq(vp[i], p)
                  /\ s = min_grade
                       => /\ \E i \in 1..Len(vp) : p = vp[i]
                          /\ \A i \in 1..Len(vp) : Leq(p, vp[i])
                  /\ s = avg_grade => (Len(p) = 2 /\ IsMean(p, vp))
                  /\ s = use_earliest => p = vp[1]
                  /\ s = use_latest => p = vp[Len(vp)]

C7_Witness ==
    /\ pc = "done"
    /\ self.valid_percentages = <<<<100, 1>>, <<50, 1>>, <<50, 1>>>>
    /\ percentage(with_strategy(self, max_grade)) = <<100, 1>>
    /\ percentage(with_strategy(self, min_grade)) = <<50, 1>>
    /\ percentage(with_strategy(self, avg_grade)) = <<200, 3>>
    /\ percentage(with_strategy(self, use_earliest)) = <<100, 1>>
    /\ percentage(with_strategy(self, use_latest)) = <<50, 1>>
    /\ percentage_raises(with_strategy(self, OtherStrategy))

\* C8: percentage() returns None and does not raise, under every strategy, when no
\* grade change was ever consumed or valid_percentages is empty; that is so once
\* consume has returned on a sequence with no graded change consumed since its
\* last reset (the empty sequence among them).
C8_PercentageUnset ==
    \A s \in AllStrategies :
        LET m == with_strategy(self, s)
        IN  /\ (self.opportunity = NoneOpportunity \/ self.valid_percentages = <<>>)
                  => (~percentage_raises(m) /\ percentage(m) = <<>>)
            /\ (pc = "done" /\ GradedSince(LastReset) = {})
                  => (~percentage_raises(m) /\ percentage(m) = <<>>)

C8_Witness ==
    /\ pc = "done"
    /\ Len(gchanges) = 3
    /\ gchanges[1].state = graded /\ gchanges[2].state = graded
    /\ gchanges[3].state = do_over
    /\ percentage(with_strategy(self, OtherStrategy)) = <<>>
    /\ percentage(with_strategy(self, avg_grade)) = <<>>

C8_Witness_Empty ==
    /\ pc = "done"
    /\ gchanges = <<>>
    /\ percentage(self) = <<>>

\* text is the percentage p shown with one decimal (the tenth nearest to p) and
\* "%", followed by suffix.
IsPercentageText(text, p, suffix) ==
    \E t \in ((10 * p[1]) \div p[2])..((10 * p[1]) \div p[2] + 1) :
        /\ 2 * (10 * p[1] - t * p[2]) <= p[2]
        /\ 2 * (t * p[2] - 10 * p[1]) <= p[2]
        /\ text = ToString(t \div 10) \o "." \o ToString(t % 10) \o "%" \o suffix

\* C9: once consume has returned, stringify_state() is "-" when state is None,
\* "(exempt)" when it is exempt, the percentage with one decimal and "%" when it is
\* graded, followed by " (/n)" exactly when valid_percentages has n > 1 entries
\* (percentage() raising for an unknown strategy raises here too), and
\* "(other state)" for every other state.
C9_Display ==
    pc = "done"
        => \A s \in AllStrategies :
              LET m == with_strategy(self, s)
                  n == Len(self.valid_percentages)
                  text == stringify_state(m)
              IN  /\ self.state = None => text = "-"
                  /\ self.state = exempt => text = "(exempt)"
                  /\ (self.state = graded /\ s \in GRADE_AGGREGATION_STRATEGY_CHOICES)
                       => /\ percentage(m) # <<>>
                          /\ IsPercentageText(
                                text, percentage(m),
                                IF n > 1 THEN " (/" \o ToString(n) \o ")" ELSE "")
                  /\ (self.state = graded /\ s \notin GRADE_AGGREGATION_STRATEGY_CHOICES)
                       => text = InvalidStrategy
                  /\ self.state \notin {None, exempt, graded} => text = "(other state)"

C9_Witness ==
    /\ pc = "done"
    /\ self.state = graded
    /\ self.valid_percentages = <<<<100, 1>>, <<50, 1>>, <<50, 1>>>>
    /\ stringify_state(with_strategy(self, avg_grade)) = "66.7% (/3)"
    /\ stringify_state(with_strategy(self, max_grade)) = "100.0% (/3)"

C9_Witness_Single ==
    /\ pc = "done"
    /\ self.state = graded
    /\ self.valid_percentages = <<<<50, 1>>>>
    /\ stringify_state(with_strategy(self, use_latest)) = "50.0%"

C9_Witness_Other ==
    /\ pc = "done"
    /\ self.state = unavailable
    /\ stringify_state(self) = "(other state)"

\* C10 as stated: in state unavailable stringify_state() is "-", as for the unset
\* state.
C10_UnavailableDash ==
    self.state = unavailable => stringify_state(self) = "-"

\* C10 amended: in state unavailable stringify_state() is "(other state)", which is
\* neither the "-" of the unset state nor the "(exempt)" of exempt.
C10_UnavailableOtherState ==
    /\ self.state = unavailable => stringify_state(self) = "(other state)"
    /\ self.state = None => stringify_state(self) = "-"
    /\ self.state = exempt => stringify_state(self) = "(exempt)"

C10_Witness ==
    /\ pc = "loop"
    /\ Len(gchanges) = 2
    /\ gchanges[1].state = graded
    /\ gchanges[2].state = unavailable
    /\ self.state = unavailable
    /\ stringify_state(self) = "(other state)"

\* C11 as stated: a graded change without points has an unset percentage, so
\* consuming it raises nothing (TypeError is what 100*None raises), at the loop or
\* at the return, with or without an attempt_id, and valid_percentages never
\* holds an unset value.
C11_UnsetPercentagesExcluded ==
    /\ error # TypeError
    /\ \A p \in 1..Len(self.valid_percentages) : self.valid_percentages[p] # <<>>

\* A grade change of the log as it was fed: without the is_superseded attribute
\* consume gives it.
AsFed(g) == [f \in DOMAIN g \ {"is_superseded"} |-> g[f]]

Iterable == [k \in 1..Len(gchanges) |-> AsFed(gchanges[k])]

InOneCall == consume(GradeStateMachine, <<>>, Iterable, set_is_superseded)

\* C13 as stated: when consume([e1, e2]) has returned and the same machine is
\* given e3 by a second call of consume, then, provided one call of consume on
\* [e1, e2, e3] succeeds, the second call succeeds too and leaves the state,
\* due_time, last_graded_time, last_report_time and valid_percentages that the one
\* call leaves.
C13_IncrementalContinuation ==
    (pc \in {"done_again", "raised_again"} /\ Len(gchanges) = 3
       /\ InOneCall.error = NoError)
        => /\ pc = "done_again"
           /\ error = NoError
           /\ self.state = InOneCall.self.state
           /\ self.due_time = InOneCall.self.due_time
           /\ self.last_graded_time = InOneCall.self.last_graded_time
           /\ self.last_report_time = InOneCall.self.last_report_time
           /\ self.valid_percentages = InOneCall.self.valid_percentages

\* Where the continuation does agree with the one call: the grade change of the
\* second call is an unavailable, exempt or do_over, which makes the attempt map anew.
C13_ContinuationAfterReset ==
    (pc \in {"done_again", "raised_again"} /\ InOneCall.error = NoError)
        => IF gchanges[Len(gchanges)].state \in ResetStates
           THEN pc = "done_again" /\ self = InOneCall.self
           ELSE pc = "raised_again" /\ error = AttributeError

\* The grade change consumed last is an unavailable, exempt or do_over.
AfterReset ==
    /\ pc = "loop"
    /\ gchanges # <<>>
    /\ gchanges[Len(gchanges)].state \in ResetStates

\* C14: a further unavailable, exempt or do_over change consumed right after one,
\* whatever came before, leaves the empty accumulation the first one left
\* (valid_percentages and the attempt map empty before and after it); when it has
\* the state of the one before it, it leaves the whole machine as it was.
C14_ResetIdempotence ==
    [][(ConsumeStep /\ AfterReset /\ Fed.state \in ResetStates
          /\ ~opportunity_mismatch(self, Fed))
          => /\ pc' = "loop"
             /\ self.valid_percentages = <<>> /\ self'.valid_percentages = <<>>
             /\ self.attempt_id_to_gchange = <<>> /\ self'.attempt_id_to_gchange = <<>>
             /\ Fed.state = gchanges[Len(gchanges)].state => self' = self]_vars

C14_Witness ==
    /\ pc = "loop"
    /\ Len(gchanges) = 3
    /\ gchanges[1].state = graded /\ gchanges[1].attempt_id = "A"
    /\ gchanges[2].state = unavailable
    /\ gchanges[3].state = unavailable
    /\ self.state = unavailable
    /\ self.valid_percentages = <<>>
    /\ self.attempt_id_to_gchange = <<>>

C14_Witness_DoOver ==
    /\ pc = "loop"
    /\ Len(gchanges) = 3
    /\ gchanges[1].state = exempt
    /\ gchanges[2].state = do_over
    /\ gchanges[3].state = do_over
    /\ self.state = None

\* C15: a grade change whose opportunity is not the machine's (that of the first
\* grade change consumed) fails the reduction at that change, whatever its state:
\* the assert of line 749 raises and the machine is left as it was.
C15_SingleOpportunity ==
    [][(ConsumeStep /\ self.opportunity # NoneOpportunity
          /\ Fed.opportunity.pk # self.opportunity.pk)
          => /\ pc' = "raised_in_loop"
             /\ error' = AssertionError
             /\ self' = self]_vars

C15_Witness ==
    /\ Len(gchanges) = 3
    /\ gchanges[1].state = graded /\ gchanges[1].opportunity = gopp
    /\ gchanges[2].state = unavailable /\ gchanges[2].opportunity = gopp
    /\ gchanges[3].state = graded /\ gchanges[3].opportunity = OtherOpportunity
    /\ pc = "raised_in_loop"
    /\ error = AssertionError
    /\ self.state = unavailable

C15_Witness_Report ==
    /\ Len(gchanges) = 2
    /\ gchanges[2].state = report_sent /\ gchanges[2].opportunity = OtherOpportunity
    /\ pc = "raised_in_loop"
    /\ error = AssertionError
    /\ self.last_report_time = NoneTime

\* The due time the log says is running when the next grade change g is taken: that
\* of the extension consumed last, or that of the opportunity of the first grade
\* change if no extension was consumed.
Extensions ==
    {k \in 1..Len(gchanges) : Consumed(k) /\ gchanges[k].state = extension}

LoggedDueTime(g) ==
    IF Extensions # {}
    THEN gchanges[CHOOSE k \in Extensions : \A j \in Extensions : j <= k].due_time
    ELSE IF gchanges # <<>> THEN gchanges[1].opportunity.due_time
    ELSE g.opportunity.due_time

\* C16: after every grade change consumed, due_time is that of the extension
\* consumed last (the one just consumed, if it is one), or the opportunity's if none
\* was consumed; it changes at no other step; a graded change that is not locked out
\* is refused as late exactly when its grade_time is greater than that running value
\* (an earlier, greater due_time does not count); and an extension changes neither
\* the state nor valid_percentages, the attempt map, last_graded_time or
\* last_report_time.
C16_RunningDueTime ==
    [][/\ (ConsumeStep /\ pc' = "loop")
            => self'.due_time = (IF Fed.state = extension THEN Fed.due_time
                                 ELSE LoggedDueTime(Fed))
       /\ (ConsumeStep /\ self.opportunity # NoneOpportunity)
            => self.due_time = LoggedDueTime(Fed)
       /\ ~ConsumeStep => self'.due_time = self.due_time
       /\ GradedStep
            => ((error' = GradeAfterDueDate)
                  <=> (LoggedDueTime(Fed) # NoneTime
                         /\ Fed.grade_time > LoggedDueTime(Fed)))
       /\ (ConsumeStep /\ Fed.state = extension /\ ~opportunity_mismatch(self, Fed))
            => /\ pc' = "loop"
               /\ self'.state = self.state
               /\ self'.valid_percentages = self.valid_percentages
               /\ self'.attempt_id_to_gchange = self.attempt_id_to_gchange
               /\ self'.last_graded_time = self.last_graded_time
               /\ self'.last_report_time = self.last_report_time]_vars

\* An extension to 2, then one back to 1: the graded change at time 2 is late.
C16_Witness ==
    /\ Len(gchanges) = 3
    /\ gchanges[1].state = extension /\ gchanges[1].due_time = 2
    /\ gchanges[2].state = extension /\ gchanges[2].due_time = 1
    /\ gchanges[3].state = graded /\ gchanges[3].grade_time = 2
    /\ self.due_time = 1
    /\ pc = "raised_in_loop"
    /\ error = GradeAfterDueDate

\* The opportunity's due time 1 replaced by an extension to 2: a graded change at
\* time 2 is accepted.
C16_Witness_Extended ==
    /\ Len(gchanges) = 2
    /\ gopp.due_time = 1
    /\ gchanges[1].state = extension /\ gchanges[1].due_time = 2
    /\ gchanges[2].state = graded /\ gchanges[2].grade_time = 2
    /\ self.due_time = 2
    /\ self.state = graded
    /\ pc = "loop"

\* C17 as stated: once consume has returned with graded changes consumed since the
\* last reset, percentage() under use_latest is the percentage of one of them that
\* has the greatest grade_time, attempt-grouped and ungrouped changes mixed or not.
C17_UseLatestIsLatest ==
    (pc = "done" /\ GradedSince(LastReset) # {})
        => \E k \in GradedSince(LastReset) :
              /\ \A j \in GradedSince(LastReset) :
                    gchanges[j].grade_time <= gchanges[k].grade_time
              /\ percentage(with_strategy(self, use_latest)) = Pct(k)

\* What machine i's consume call leaves when it runs alone on the grade changes
\* machine i was fed.
Alone(i) ==
    consume(GradeStateMachine, <<>>,
            [k \in 1..Len(reducers[i].gchanges) |-> AsFed(reducers[i].gchanges[k])],
            reducers[i].set_is_superseded)

\* Machine i's consume call has ended: it returned or raised.
Ended(i) == reducers[i].pc # "loop"

OwnStep == ConsumeStep /\ ~opportunity_mismatch(self, Fed)

\* The step leaves the state and the grade accumulation as they were.
GradesUnchanged ==
    /\ self'.state = self.state
    /\ self'.valid_percentages = self.valid_percentages
    /\ self'.attempt_id_to_gchange = self.attempt_id_to_gchange
    /\ self'.last_graded_time = self.last_graded_time

\* C19 as stated: a grading_started or retrieved change changes none of state,
\* valid_percentages, attempt map, last_graded_time, last_report_time; a report_sent
\* change sets last_report_time to its grade_time and changes none of state,
\* valid_percentages, attempt map, due_time, last_graded_time; a change whose state
\* is none of the eight raises the RuntimeError of line 803.
C19_NonGradingFrame ==
    [][OwnStep
          => /\ Fed.state \in {grading_started, retrieved}
                  => /\ pc' = "loop"
                     /\ GradesUnchanged
                     /\ self'.last_report_time = self.last_report_time
             /\ Fed.state = report_sent
                  => /\ pc' = "loop"
                     /\ self'.last_report_time = Fed.grade_time
                     /\ GradesUnchanged
                     /\ self'.due_time = self.due_time
             /\ Fed.state \notin GRADE_STATE_CHANGE_CHOICES
                  => (pc' = "raised_in_loop" /\ error' = UnknownState)]_vars

\* C19 amended: the same, except that a report_sent change consumed first gives
\* due_time the opportunity's due_time, as every first grade change does (lines
\* 745-747); a later one leaves due_time as it was.
C19_NonGradingFrameAfterFirst ==
    [][OwnStep
          => /\ Fed.state \in {grading_started, retrieved}
                  => /\ pc' = "loop"
                     /\ GradesUnchanged
                     /\ self'.last_report_time = self.last_report_time
             /\ Fed.state = report_sent
                  => /\ pc' = "loop"
                     /\ self'.last_report_time = Fed.grade_time
                     /\ GradesUnchanged
                     /\ self'.due_time = (IF gchanges = <<>>
                                          THEN Fed.opportunity.due_time
                                          ELSE self.due_time)
             /\ Fed.state \notin GRADE_STATE_CHANGE_CHOICES
                  => (pc' = "raised_in_loop" /\ error' = UnknownState)]_vars

C19_Witness ==
    /\ pc = "loop"
    /\ Len(gchanges) = 3
    /\ gchanges[1].state = graded /\ gchanges[1].attempt_id = "A"
    /\ gchanges[1].grade_time = 1
    /\ gchanges[2].state = report_sent /\ gchanges[2].grade_time = 2
    /\ gchanges[3].state = retrieved
    /\ self.state = graded
    /\ self.last_graded_time = 1
    /\ self.last_report_time = 2
    /\ Len(self.attempt_id_to_gchange) = 1

C19_Witness_First ==
    /\ pc = "loop"
    /\ Len(gchanges) = 1
    /\ gchanges[1].state = report_sent
    /\ gopp.due_time = 1
    /\ self.due_time = 1
    /\ self.last_report_time = gchanges[1].grade_time

C19_Witness_Unknown ==
    /\ pc = "raised_in_loop"
    /\ Len(gchanges) = 2
    /\ gchanges[2].state = OtherState
    /\ error = UnknownState

\* C20: a graded change of the machine's opportunity that meets state unavailable
\* or exempt, or is late, raises a ValueError that leaves consume: state,
\* valid_percentages, the attempt map, last_graded_time, last_report_time and the
\* is_superseded flags of the earlier changes are as they were before it, and after
\* an exception no further grade change is consumed and the return part of consume
\* does not run.
C20_RejectionLeavesNoEffect ==
    [][/\ (OwnStep /\ Fed.state = graded
             /\ (self.state \in {unavailable, exempt} \/ Late(Fed)))
            => /\ pc' = "raised_in_loop"
               /\ error' \in {GradeRejectedUnavailable, GradeRejectedExempt,
                              GradeAfterDueDate}
               /\ GradesUnchanged
               /\ self'.last_report_time = self.last_report_time
               /\ \A k \in 1..Len(gchanges) : gchanges'[k] = gchanges[k]
       /\ pc \in {"raised_in_loop", "raised_after_loop"} => UNCHANGED vars]_vars

C20_Witness ==
    /\ pc = "raised_in_loop"
    /\ error = GradeAfterDueDate
    /\ Len(gchanges) = 3
    /\ gchanges[1].state = graded /\ gchanges[1].grade_time = 1
    /\ gchanges[2].state = do_over
    /\ gchanges[3].state = graded /\ gchanges[3].grade_time = 2
    /\ gchanges[3].attempt_id = "A"
    /\ self.due_time = 1
    /\ self.state = None
    /\ self.valid_percentages = <<>>
    /\ self.attempt_id_to_gchange = <<>>
    /\ self.last_graded_time = 1

C20_Witness_Lockout ==
    /\ pc = "raised_in_loop"
    /\ error = GradeRejectedExempt
    /\ Len(gchanges) = 3
    /\ gchanges[1].state = report_sent
    /\ gchanges[2].state = exempt
    /\ gchanges[3].state = graded
    /\ self.state = exempt
    /\ self.last_report_time = gchanges[1].grade_time

\* The grade_time of the graded change consumed last in the whole log, NoneTime if
\* none was consumed.
LastGradedTime ==
    IF GradedSince(0) = {} THEN NoneTime
    ELSE gchanges[CHOOSE k \in GradedSince(0) :
                    \A j \in GradedSince(0) : j <= k].grade_time

\* What the resets leave of the times, due_time apart: last_graded_time is at all
\* times that of the graded change consumed last, cleared by a later reset or not;
\* a reset is consumed without an exception and leaves last_graded_time and
\* last_report_time as they were; and a graded change is refused as late by the
\* due_time the log says is running, whatever resets came since the extension.
ResetsKeepTimes ==
    /\ [](self.last_graded_time = LastGradedTime)
    /\ [][/\ (OwnStep /\ Fed.state \in ResetStates)
               => /\ pc' = "loop"
                  /\ self'.last_graded_time = self.last_graded_time
                  /\ self'.last_report_time = self.last_report_time
          /\ GradedStep
               => ((error' = GradeAfterDueDate)
                     <=> (LoggedDueTime(Fed) # NoneTime
                            /\ Fed.grade_time > LoggedDueTime(Fed)))]_vars

\* C21 as stated: an unavailable, exempt or do_over change leaves due_time,
\* last_graded_time and last_report_time unchanged; so the due_time of an earlier
\* extension still decides on graded changes after a do_over, and last_graded_time
\* is the grade_time of the graded change accepted last in the whole sequence, or
\* unset if none was.
C21_ResetsPreserveTimes ==
    /\ ResetsKeepTimes
    /\ [][(OwnStep /\ Fed.state \in ResetStates)
             => self'.due_time = self.due_time]_vars

\* C21 amended: the same, except that a reset consumed first gives due_time the
\* opportunity's due_time, as every first grade change does (lines 745-747); a
\* later one leaves due_time as it was.
C21_ResetsPreserveTimesAfterFirst ==
    /\ ResetsKeepTimes
    /\ [][(OwnStep /\ Fed.state \in ResetStates)
             => self'.due_time = (IF gchanges = <<>>
                                  THEN Fed.opportunity.due_time
                                  ELSE self.due_time)]_vars

\* An extension to 1, a graded change on time, a do_over: last_graded_time stays.
C21_Witness ==
    /\ pc = "loop"
    /\ Len(gchanges) = 3
    /\ gopp.due_time = NoneTime
    /\ gchanges[1].state = extension /\ gchanges[1].due_time = 1
    /\ gchanges[2].state = graded /\ gchanges[2].grade_time = 1
    /\ gchanges[3].state = do_over /\ gchanges[3].grade_time = 2
    /\ self.state = None
    /\ self.valid_percentages = <<>>
    /\ self.due_time = 1
    /\ self.last_graded_time = 1

\* The due_time of the extension decides after the do_over.
C21_Witness_Late ==
    /\ pc = "raised_in_loop"
    /\ error = GradeAfterDueDate
    /\ Len(gchanges) = 3
    /\ gopp.due_time = NoneTime
    /\ gchanges[1].state = extension /\ gchanges[1].due_time = 1
    /\ gchanges[2].state = do_over
    /\ gchanges[3].state = graded /\ gchanges[3].grade_time = 2
    /\ self.due_time = 1

\* The state of the change consumed last among the graded, unavailable, exempt and
\* do_over changes of the log, None if there is none.
LastDeciding ==
    LET ds == {k \in 1..Len(gchanges) :
                 Consumed(k) /\ gchanges[k].state \in ResetStates \cup {graded}}
    IN  IF ds = {} THEN None
        ELSE gchanges[CHOOSE k \in ds : \A j \in ds : j <= k].state

\* C22: a graded change of the machine's opportunity is refused for lockout (the
\* ValueError of unavailable or exempt) exactly when the change consumed last among
\* the graded, unavailable, exempt and do_over ones is an unavailable or an exempt;
\* one that is not locked out, not late and has points (a percentage) is taken and
\* the state becomes graded; so after [unavailable, do_over] or [exempt, do_over]
\* such a graded change is taken and, when consume is left after it, consume has
\* returned with state graded and its percentage the only entry of
\* valid_percentages.
C22_DoOverLiftsLockout ==
    /\ [][(OwnStep /\ Fed.state = graded)
             => /\ (error' \in {GradeRejectedUnavailable, GradeRejectedExempt})
                     <=> (LastDeciding \in {unavailable, exempt})
                /\ (LastDeciding \notin {unavailable, exempt} /\ ~Late(Fed)
                      /\ Fed.points # NonePoints)
                     => (pc' = "loop" /\ self'.state = graded)]_vars
    /\ [](\A k \in 3..Len(gchanges) :
            (/\ k = Len(gchanges)
             /\ gchanges[k - 2].state \in {unavailable, exempt}
             /\ gchanges[k - 1].state = do_over
             /\ gchanges[k].state = graded
             /\ gchanges[k].points # NonePoints
             /\ gchanges[k - 1].opportunity = gopp
             /\ gchanges[k].opportunity = gopp
             /\ pc \in {"done", "raised_after_loop"})
                => /\ pc = "done"
                   /\ self.state = graded
                   /\ self.valid_percentages = <<Pct(k)>>)

C22_Witness ==
    /\ pc = "done"
    /\ Len(gchanges) = 3
    /\ gchanges[1].state = unavailable
    /\ gchanges[2].state = do_over
    /\ gchanges[3].state = graded /\ gchanges[3].attempt_id = "A"
    /\ self.state = graded
    /\ self.valid_percentages = <<<<100, 1>>>>

C22_Witness_Exempt ==
    /\ pc = "done"
    /\ Len(gchanges) = 3
    /\ gchanges[1].state = exempt
    /\ gchanges[2].state = do_over
    /\ gchanges[3].state = graded /\ gchanges[3].attempt_id = None
    /\ self.state = graded
    /\ self.valid_percentages = <<<<50, 1>>>>

\* The state and the accumulation agree: while the attempt map exists, state is
\* graded exactly when valid_percentages or the attempt map is not empty; once
\* consume has returned, exactly when valid_percentages is not empty, and then
\* percentage() is defined under each of the five strategies; and in state None,
\* unavailable or exempt percentage() is None under every strategy.
StateMatchesAccumulation ==
    /\ pc # "done"
          => ((self.state = graded)
                <=> (self.valid_percentages # <<>> \/ self.attempt_id_to_gchange # <<>>))
    /\ pc = "done"
          => /\ (self.state = graded) <=> (self.valid_percentages # <<>>)
             /\ self.state = graded
                   => \A s \in GRADE_AGGREGATION_STRATEGY_CHOICES :
                         /\ percentage(with_strategy(self, s)) # <<>>
                         /\ stringify_state(with_strategy(self, s)) # TypeError
    /\ self.state \in {None, unavailable, exempt}
          => \A s \in AllStrategies :
                /\ ~percentage_raises(with_strategy(self, s))
                /\ percentage(with_strategy(self, s)) = <<>>

\* C23 as stated: in every state the machine is in during or after a reduction,
\* state is graded exactly when valid_percentages or the attempt map is not empty
\* (after the return: when valid_percentages is not empty), so that
\* stringify_state() in state graded has a percentage to format, and state None,
\* unavailable or exempt implies percentage() is None.
C23_StateAccumulationConsistency == StateMatchesAccumulation

\* The same in every state but the one a TypeError of line 776 leaves.
C23_ConsistencyUnlessTypeError ==
    ~(pc = "raised_in_loop" /\ error = TypeError) => StateMatchesAccumulation

\* What one call of consume on the grade changes of the log leaves when it is
\* given the other value of set_is_superseded.
WithOtherFlag == consume(GradeStateMachine, <<>>, Iterable, ~set_is_superseded)

\* i is flagged by the rule of the claim: a consumed graded change with an
\* attempt_id that a later consumed graded change of the same attempt_id follows
\* with no consumed unavailable, exempt or do_over change between the two.
Superseded(i) == \E j \in 1..Len(gchanges) : SameAttemptRun(i, j)

\* C24: set_is_superseded only affects the flags: when consume has returned or
\* raised, its state, due_time, last_graded_time, last_report_time and
\* valid_percentages and its outcome are those of the call with the other value of
\* set_is_superseded on the same grade changes; without set_is_superseded every
\* grade change fed has is_superseded False; with it a grade change is flagged
\* exactly when it is a consumed graded change with an attempt_id followed by a
\* consumed graded change of that attempt_id with no unavailable, exempt or
\* do_over change between the two.
C24_FlagOnlyAffectsFlags ==
    [](/\ pc # "loop"
             => LET other == WithOtherFlag
                IN  /\ error = other.error
                    /\ self.state = other.self.state
                    /\ self.due_time = other.self.due_time
                    /\ self.last_graded_time = other.self.last_graded_time
                    /\ self.last_report_time = other.self.last_report_time
                    /\ self.valid_percentages = other.self.valid_percentages
                    /\ Len(other.gchanges) = Len(gchanges)
       /\ \A i \in 1..Len(gchanges) :
             gchanges[i].is_superseded <=> (set_is_superseded /\ Superseded(i)))

\* With set_is_superseded: A is graded, an ungrouped grade follows, A is graded
\* again with other points: the first is flagged, the other two are not, and
\* consume returns the percentages the call without set_is_superseded returns,
\* which flags nothing.
C24_Witness ==
    /\ set_is_superseded
    /\ pc = "done"
    /\ Len(gchanges) = 3
    /\ SameAttemptRun(1, 3)
    /\ gchanges[2].state = graded /\ gchanges[2].attempt_id = None
    /\ gchanges[1].is_superseded /\ ~gchanges[2].is_superseded
    /\ ~gchanges[3].is_superseded
    /\ Pct(1) # Pct(3)
    /\ self.valid_percentages = <<Pct(2), Pct(3)>>
    /\ WithOtherFlag.self.valid_percentages = <<Pct(2), Pct(3)>>
    /\ \A i \in 1..3 : ~WithOtherFlag.gchanges[i].is_superseded

\* With set_is_superseded: a graded change of A cleared by a do_over is not
\* flagged by the graded change of A after the reset.
C24_Witness_Reset ==
    /\ set_is_superseded
    /\ pc = "done"
    /\ Len(gchanges) = 3
    /\ gchanges[1].state = graded /\ gchanges[1].attempt_id = "A"
    /\ gchanges[2].state = do_over
    /\ gchanges[3].state = graded /\ gchanges[3].attempt_id = "A"
    /\ \A i \in 1..3 : ~gchanges[i].is_superseded
    /\ self.valid_percentages = <<Pct(3)>>

\* Without set_is_superseded: the same run of A, nothing flagged.
C24_Witness_Unflagged ==
    /\ ~set_is_superseded
    /\ pc = "done"
    /\ Len(gchanges) = 3
    /\ SameAttemptRun(1, 3)
    /\ \A i \in 1..3 : ~gchanges[i].is_superseded
    /\ WithOtherFlag.gchanges[1].is_superseded

====
